---- MODULE Spec2Model ----
(***************************************************************************)
(* The internship portal: the developer's submit page (SubmitPage), the    *)
(* evaluator's page (EvaluatePage) and the stores they talk to (the        *)
(* submissions table, the profiles table, blob storage, the notification   *)
(* endpoint).  Every await of a handler is a step of its own, so that the  *)
(* sessions interleave exactly where the code yields.                      *)
(***************************************************************************)
EXTENDS Integers, Sequences, FiniteSets, TLC

(***************************************************************************)
(* Bounds of the model.                                                    *)
(***************************************************************************)
\* handleSubmit calls per session
MaxAttempts == 2
\* decisions (handleDecision calls that reach the update) over all sessions
MaxDecisions == 2
\* full-list fetches in flight, and change events undelivered, per evaluator
\* session
MaxInFlight == 2

\* digits in the phone numbers typed
MaxPhoneDigits == 17

None == "none"

\* a value that may be null: <<>> is null, <<x>> holds x
Null == <<>>

Some(x) == <<x>>

Val(o) == o[1]

(***************************************************************************)
(* Strings are sequences of one-character strings; file names are kept as  *)
(* what name.split(".") returns.                                           *)
(***************************************************************************)
Str(n, c) == [i \in 1..n |-> c]

WhiteSpace == {" ", "\t", "\n"}

Digits == {"0", "1", "2", "3", "4", "5", "6", "7", "8", "9"}

RECURSIVE trimStart(_)
trimStart(s) ==
  IF s # <<>> /\ Head(s) \in WhiteSpace THEN trimStart(Tail(s)) ELSE s

RECURSIVE trimEnd(_)
trimEnd(s) ==
  IF s # <<>> /\ s[Len(s)] \in WhiteSpace
    THEN trimEnd(SubSeq(s, 1, Len(s) - 1))
    ELSE s

\* a variant of trim that keeps the trailing white space
trimLeadingOnly(s) == trimStart(s)

\* String.prototype.trim
trim(s) == trimEnd(trimStart(s))

\* name.split(".").pop()
splitPop(name) == name[Len(name)]

\* name.endsWith(".zip")
endsWithZip(name) == Len(name) >= 2 /\ name[Len(name)] = "zip"

(***************************************************************************)
(* validation.ts                                                           *)
(***************************************************************************)
\* /^[^\s@]+@[^\s@]+\.[^\s@]+$/
validateEmail(email) ==
  LET plain(i, j) == /\ i <= j
                     /\ \A k \in i..j : email[k] \notin WhiteSpace \cup {"@"}
  IN \E a \in 1..Len(email) : \E d \in 1..Len(email) :
       /\ email[a] = "@"
       /\ email[d] = "."
       /\ plain(1, a - 1)
       /\ plain(a + 1, d - 1)
       /\ plain(d + 1, Len(email))

\* a variant of digitsOnly that drops only the blanks
digitsOnlyNoBlanks(phone) == SelectSeq(phone, LAMBDA c : c \notin WhiteSpace)

\* phone.replace(/\D/g, '')
digitsOnly(phone) == SelectSeq(phone, LAMBDA c : c \in Digits)

validatePhoneNumber(phone) ==
  Len(digitsOnly(phone)) >= 7 /\ Len(digitsOnly(phone)) <= 15

MaxSourceCodeBytes == 50 * 1024 * 1024

MaxImageBytes == 20 * 1024 * 1024

FormFields ==
  {"fullName", "phoneNumber", "location", "email", "hobbies",
   "profilePicture", "sourceCode"}

\* the error of one field, None when the field passes
fieldError(data, name) ==
  CASE name = "fullName" ->
         IF trim(data.fullName) = <<>> THEN "Full name is required"
         ELSE IF Len(trim(data.fullName)) < 2
           THEN "Full name must be at least 2 characters"
         ELSE IF Len(trim(data.fullName)) > 100
           THEN "Full name must be less than 100 characters"
         ELSE None
    [] name = "phoneNumber" ->
         IF trim(data.phoneNumber) = <<>> THEN "Phone number is required"
         ELSE IF ~validatePhoneNumber(data.phoneNumber)
           THEN "Please enter a valid phone number"
         ELSE None
    [] name = "location" ->
         IF trim(data.location) = <<>> THEN "Location is required"
         ELSE IF Len(trim(data.location)) < 2
           THEN "Location must be at least 2 characters"
         ELSE IF Len(trim(data.location)) > 100
           THEN "Location must be less than 100 characters"
         ELSE None
    [] name = "email" ->
         IF trim(data.email) = <<>> THEN "Email address is required"
         ELSE IF ~validateEmail(data.email)
           THEN "Please enter a valid email address"
         ELSE None
    [] name = "hobbies" ->
         IF trim(data.hobbies) = <<>>
           THEN "Please tell us about your hobbies and interests"
         ELSE IF Len(trim(data.hobbies)) < 20
           THEN "Please provide more detail (at least 20 characters)"
         ELSE IF Len(trim(data.hobbies)) > 1000
           THEN "Please keep your response under 1000 characters"
         ELSE None
    [] name = "profilePicture" ->
         IF data.profilePicture = Null THEN "Profile picture is required"
         ELSE None
    [] name = "sourceCode" ->
         IF data.sourceCode = Null THEN "Source code file is required"
         ELSE IF ~endsWithZip(Val(data.sourceCode).name)
           THEN "Source code must be a .zip file"
         ELSE IF Val(data.sourceCode).size > MaxSourceCodeBytes
           THEN "Source code file must be less than 50MB"
         ELSE None

\* the error map: a function on exactly the fields that fail
validateSubmissionForm(data) ==
  [name \in {n \in FormFields : fieldError(data, n) # None}
     |-> fieldError(data, name)]

(***************************************************************************)
(* imageUtils.ts                                                           *)
(***************************************************************************)
validTypes == {"image/jpeg", "image/jpg", "image/png", "image/webp"}

\* a variant of validateImageFile without the size limit
validateImageFileTypeOnly(file) ==
  IF file.type \notin validTypes
    THEN [valid |-> FALSE,
          error |-> "Please upload a valid image file (JPEG, PNG, or WebP)"]
  ELSE [valid |-> TRUE, error |-> None]

validateImageFile(file) ==
  IF file.type \notin validTypes
    THEN [valid |-> FALSE,
          error |-> "Please upload a valid image file (JPEG, PNG, or WebP)"]
  ELSE IF file.size > MaxImageBytes
    THEN [valid |-> FALSE,
          error |-> "Image file is too large. Please select an image under 20MB"]
  ELSE [valid |-> TRUE, error |-> None]

\* imageCompression(file, {maxSizeMB: 1, fileType: file.type}): same name and
\* type, at most 1 MiB
compressedFile(file) ==
  [name |-> file.name,
   type |-> file.type,
   size |-> IF file.size > 1024 * 1024 THEN 1024 * 1024 ELSE file.size]

(***************************************************************************)
(* The people, the sessions and the values they enter.                     *)
(***************************************************************************)
Users == {"u1", "u2", "v1"}

\* the role column of the profiles table
profileRole(u) == IF u = "v1" THEN "evaluator" ELSE "developer"

\* browser sessions on the submit page and on the evaluate page
DevSessions == {"d1", "d2"}

EvalSessions == {"e1", "e2"}

ImagePng == [name |-> <<"me", "png">>, type |-> "image/png",
             size |-> 3 * 1024 * 1024]

ImageJpg == [name |-> <<"me", "jpg">>, type |-> "image/jpeg", size |-> 2048]

ImageGif == [name |-> <<"me", "gif">>, type |-> "image/gif", size |-> 2048]

ArchiveZip == [name |-> <<"src", "zip">>, type |-> "application/zip",
               size |-> 4096]

ArchiveTar == [name |-> <<"src", "tar">>, type |-> "application/x-tar",
               size |-> 4096]

\* what a developer enters between two submits: the five texts and the two
\* files picked
FormAl ==
  [fullName |-> <<" ", "A", "l">>,
   phoneNumber |-> <<"+", "1", " ", "5", "5", "5", "-", "0", "1", "0", "0">>,
   location |-> <<"R", "o", "m", "e", " ">>,
   email |-> <<"a", "@", "b", ".", "c">>,
   hobbies |-> Str(20, "h"),
   profilePicture |-> ImagePng,
   sourceCode |-> ArchiveZip]

FormBo ==
  [fullName |-> <<"B", "o">>,
   phoneNumber |-> Str(7, "7"),
   location |-> <<"O", "s", "l", "o">>,
   email |-> <<"b", "@", "c", ".", "d">>,
   hobbies |-> Str(21, "k"),
   profilePicture |-> ImageJpg,
   sourceCode |-> ArchiveZip]

FormBad ==
  [fullName |-> <<" ">>,
   phoneNumber |-> <<"1", "2", "3">>,
   location |-> <<"O", "s", "l", "o">>,
   email |-> <<"b", "@", "c">>,
   hobbies |-> Str(19, "k"),
   profilePicture |-> ImageGif,
   sourceCode |-> ArchiveTar]

FormInputs == {FormAl, FormBo, FormBad}

\* what an evaluator types into the feedback box
FeedbackInputs ==
  { <<" ">>, <<" ", "o", "k", " ">> }

Decisions == {"accepted", "rejected"}

\* how an awaited call to a collaborator ends
Outcomes == {"ok", "error", "throw"}

(***************************************************************************)
(* State.                                                                  *)
(***************************************************************************)
VARIABLES
  rows,          \* the submissions table, in insertion (created_at) order
  blobs,         \* blob storage: a set of [bucket, path, file]
  notifs,        \* the requests sent to POST /api/send-email, in order
  writes,        \* the decision updates the table applied, in order
  started,       \* the number of decisions that reached the update
  dpc,           \* SubmitPage: where each session's handler is
  user,          \* SubmitPage and EvaluatePage: the user getUser returned
  profile,       \* checkAuth: what the profile lookup returned
  signedOut,     \* the session called supabase.auth.signOut
  issued,        \* the kinds of request a session has sent to the stores
  loading,       \* useState loading (both pages)
  submitting,    \* SubmitPage useState submitting
  hasSubmission, \* SubmitPage useState hasSubmission
  userId,        \* SubmitPage useState userId
  formData,      \* SubmitPage useState formData
  errors,        \* SubmitPage useState errors
  attempt,       \* SubmitPage: the locals of the handleSubmit in flight
  attempts,      \* SubmitPage: handleSubmit calls made by the session
  epc,           \* EvaluatePage: where each session's handler is
  submissions,   \* EvaluatePage useState submissions
  selectedSubmission, \* EvaluatePage useState selectedSubmission
  feedback,      \* EvaluatePage useState feedback
  processing,    \* EvaluatePage useState processing
  call,          \* EvaluatePage: the closure of the handleDecision in flight
  last,          \* EvaluatePage: how handleDecision was last invoked and ended
  subscribed,    \* EvaluatePage: the change subscription is established
  events,        \* EvaluatePage: change events not yet delivered
  fetches,       \* EvaluatePage: full-list fetches in flight
  mail           \* POST /api/send-email: the request in hand and its answer

storeVars == <<rows, blobs, notifs, writes, started>>

devVars ==
  <<dpc, submitting, hasSubmission, userId, formData, errors, attempt,
    attempts>>

evalVars ==
  <<epc, submissions, selectedSubmission, feedback, processing, call, last,
    subscribed, events, fetches>>

sharedVars == <<user, profile, signedOut, issued, loading>>

vars == <<storeVars, devVars, evalVars, sharedVars, mail>>

Sessions == DevSessions \cup EvalSessions

EmptyForm ==
  [fullName |-> <<>>, phoneNumber |-> <<>>, location |-> <<>>,
   email |-> <<>>, hobbies |-> <<>>,
   profilePicture |-> Null, sourceCode |-> Null]

NoErrors == [name \in {} |-> None]

NoAttempt == [compressedImage |-> Null, imagePath |-> Null, codePath |-> Null]

NoCall == Null

\* the route has handled no request yet
NoMail == [body |-> Null, env |-> Null, status |-> 0, sent |-> 0]

\* the state of every component right after it is constructed
InitSessions ==
  /\ dpc = [s \in DevSessions |-> "getUser"]
  /\ epc = [e \in EvalSessions |-> "getUser"]
  /\ user = [s \in Sessions |-> Null]
  /\ profile = [s \in Sessions |-> Null]
  /\ signedOut = [s \in Sessions |-> FALSE]
  /\ issued = [s \in Sessions |-> {}]
  /\ loading = [s \in Sessions |-> TRUE]
  /\ submitting = [s \in DevSessions |-> FALSE]
  /\ hasSubmission = [s \in DevSessions |-> FALSE]
  /\ userId = [s \in DevSessions |-> Null]
  /\ formData = [s \in DevSessions |-> EmptyForm]
  /\ errors = [s \in DevSessions |-> NoErrors]
  /\ attempt = [s \in DevSessions |-> NoAttempt]
  /\ attempts = [s \in DevSessions |-> 0]
  /\ submissions = [e \in EvalSessions |-> <<>>]
  /\ selectedSubmission = [e \in EvalSessions |-> Null]
  /\ feedback = [e \in EvalSessions |-> <<>>]
  /\ processing = [e \in EvalSessions |-> FALSE]
  /\ call = [e \in EvalSessions |-> NoCall]
  /\ last = [e \in EvalSessions |-> [via |-> None, result |-> None]]
  /\ subscribed = [e \in EvalSessions |-> FALSE]
  /\ events = [e \in EvalSessions |-> 0]
  /\ fetches = [e \in EvalSessions |-> {}]
  /\ mail = NoMail
  /\ notifs = <<>>
  /\ writes = <<>>
  /\ started = 0

Init ==
  /\ InitSessions
  /\ rows = <<>>
  /\ blobs = {}

(***************************************************************************)
(* The collaborators.                                                      *)
(***************************************************************************)
\* .from("submissions").select("id").eq("user_id", u)
rowsOfUser(u) == SelectSeq(rows, LAMBDA r : r.user_id = u)

\* .single(): the row when the query matched exactly one, else no data
single(matched) == IF Len(matched) = 1 THEN Some(matched[1]) ELSE Null

\* storage.from(bucket).upload(path, file, {upsert: true})
upload(bucket, path, file) ==
  {b \in blobs : ~(b.bucket = bucket /\ b.path = path)}
    \cup {[bucket |-> bucket, path |-> path, file |-> file]}

\* storage.from(bucket).getPublicUrl(path)
getPublicUrl(bucket, path) == [bucket |-> bucket, path |-> path]

\* a row event of the submissions table reaches every subscribed session;
\* events beyond MaxInFlight are coalesced
broadcast ==
  [e \in EvalSessions |->
     IF subscribed[e] /\ events[e] < MaxInFlight
       THEN events[e] + 1
       ELSE events[e]]

\* `${userId}/profile.${imageExt}`, `${userId}/source-code.${codeExt}`
storagePath(uid, base, ext) == [dir |-> uid, base |-> base, ext |-> ext]

\* a variant of rowOf that stores the text fields as typed
rowOfUntrimmed(id, uid, data, imageUrl, codeUrl) ==
  [id |-> id,
   user_id |-> uid,
   full_name |-> data.fullName,
   phone_number |-> data.phoneNumber,
   location |-> data.location,
   email |-> data.email,
   hobbies |-> data.hobbies,
   profile_picture_url |-> imageUrl,
   source_code_url |-> codeUrl,
   status |-> "pending",
   feedback |-> Null]

\* the object handleSubmit passes to insert, with the id and the created_at
\* order the table gives it
rowOf(id, uid, data, imageUrl, codeUrl) ==
  [id |-> id,
   user_id |-> uid,
   full_name |-> trim(data.fullName),
   phone_number |-> trim(data.phoneNumber),
   location |-> trim(data.location),
   email |-> trim(data.email),
   hobbies |-> trim(data.hobbies),
   profile_picture_url |-> imageUrl,
   source_code_url |-> codeUrl,
   status |-> "pending",
   feedback |-> Null]

newRow(uid, data, imageUrl, codeUrl) ==
  rowOf(Len(rows) + 1, uid, data, imageUrl, codeUrl)

(***************************************************************************)
(* SubmitPage.checkAuth                                                    *)
(***************************************************************************)
\* await supabase.auth.getUser()
SubmitGetUser(s, out, u) ==
  /\ dpc[s] = "getUser"
  /\ IF out = "throw" \/ u = Null
       THEN /\ dpc' = [dpc EXCEPT ![s] = "login"]
            /\ user' = user
       ELSE /\ dpc' = [dpc EXCEPT ![s] = "profile"]
            /\ user' = [user EXCEPT ![s] = u]
  /\ UNCHANGED <<storeVars, evalVars, mail, profile, signedOut, issued, loading, submitting,
                 hasSubmission, userId, formData, errors, attempt, attempts>>

\* {data: profile, error: profileError} of the profile lookup; nothing is
\* assigned when the call throws
profileLookup(out, u) ==
  CASE out = "ok" -> Some([error |-> FALSE, role |-> profileRole(u)])
    [] out = "error" -> Some([error |-> TRUE, role |-> None])
    [] OTHER -> Null

\* a variant of submitRoleDenied that forgets the role comparison
submitRoleDeniedOnErrorOnly(out, u) == out = "error"

\* profileError || profile.role !== "developer"
submitRoleDenied(out, u) == out = "error" \/ profileRole(u) # "developer"

\* await profiles.select("role").eq("id", user.id).single(), the role check,
\* setUserId and the start of the existence query
SubmitProfile(s, out) ==
  /\ dpc[s] = "profile"
  /\ profile' = [profile EXCEPT ![s] = profileLookup(out, Val(user[s]))]
  /\ IF out = "throw"
       THEN /\ dpc' = [dpc EXCEPT ![s] = "login"]
            /\ UNCHANGED <<signedOut, userId, issued>>
       ELSE IF submitRoleDenied(out, Val(user[s]))
         THEN /\ dpc' = [dpc EXCEPT ![s] = "signOut"]
              /\ signedOut' = [signedOut EXCEPT ![s] = TRUE]
              /\ UNCHANGED <<userId, issued>>
         ELSE /\ dpc' = [dpc EXCEPT ![s] = "existing"]
              /\ userId' = [userId EXCEPT ![s] = user[s]]
              /\ issued' = [issued EXCEPT ![s] = @ \cup {"select"}]
              /\ UNCHANGED signedOut
  /\ UNCHANGED <<storeVars, evalVars, mail, user, loading, submitting,
                 hasSubmission, formData, errors, attempt, attempts>>

\* await supabase.auth.signOut(), then router.push("/login")
SubmitSignOut(s, out) ==
  /\ dpc[s] = "signOut"
  /\ out \in {"ok", "throw"}
  /\ dpc' = [dpc EXCEPT ![s] = "login"]
  /\ UNCHANGED <<storeVars, evalVars, mail, sharedVars, submitting, hasSubmission,
                 userId, formData, errors, attempt, attempts>>

\* data of submissions.select("id").eq("user_id", user.id).single()
existingSubmission(s, out) ==
  IF out = "ok" THEN single(rowsOfUser(Val(user[s]))) ELSE Null

\* the existence query returns: setHasSubmission, setLoading(false)
SubmitExisting(s, out) ==
  /\ dpc[s] = "existing"
  /\ IF out = "throw"
       THEN /\ dpc' = [dpc EXCEPT ![s] = "login"]
            /\ UNCHANGED <<hasSubmission, loading>>
       ELSE /\ dpc' = [dpc EXCEPT ![s] = "page"]
            /\ hasSubmission' =
                 [hasSubmission EXCEPT
                    ![s] = IF existingSubmission(s, out) # Null THEN TRUE ELSE @]
            /\ loading' = [loading EXCEPT ![s] = FALSE]
  /\ UNCHANGED <<storeVars, evalVars, mail, user, profile, signedOut, issued, submitting,
                 userId, formData, errors, attempt, attempts>>

(***************************************************************************)
(* SubmitPage: the form                                                    *)
(***************************************************************************)
\* the form is what the component renders
formRendered(s) ==
  dpc[s] = "page" /\ ~loading[s] /\ ~hasSubmission[s]

\* setErrors((prev) => ({...prev, [name]: undefined}))
clearError(errs, name) ==
  [n \in DOMAIN errs \ {name} |-> errs[n]]

\* setErrors((prev) => ({...prev, [name]: message}))
setError(errs, name, message) ==
  [n \in DOMAIN errs \cup {name} |-> IF n = name THEN message ELSE errs[n]]

\* handleInputChange on a form state [formData, errors]
handleInputChange(fs, name, value) ==
  [formData |-> [fs.formData EXCEPT ![name] = value],
   errors |-> clearError(fs.errors, name)]

handleProfilePictureChange(fs, file) ==
  IF ~validateImageFile(file).valid
    THEN [formData |-> fs.formData,
          errors |-> setError(fs.errors, "profilePicture",
                              validateImageFile(file).error)]
    ELSE [formData |-> [fs.formData EXCEPT !.profilePicture = Some(file)],
          errors |-> clearError(fs.errors, "profilePicture")]

handleSourceCodeChange(fs, file) ==
  IF ~endsWithZip(file.name)
    THEN [formData |-> fs.formData,
          errors |-> setError(fs.errors, "sourceCode",
                              "File must be a .zip file")]
  ELSE IF file.size > MaxSourceCodeBytes
    THEN [formData |-> fs.formData,
          errors |-> setError(fs.errors, "sourceCode",
                              "File must be less than 50MB")]
  ELSE [formData |-> [fs.formData EXCEPT !.sourceCode = Some(file)],
        errors |-> clearError(fs.errors, "sourceCode")]

\* the change handlers run for one FormInputs value, field after field
filledForm(fs, in) ==
  LET f1 == handleInputChange(fs, "fullName", in.fullName)
      f2 == handleInputChange(f1, "phoneNumber", in.phoneNumber)
      f3 == handleInputChange(f2, "location", in.location)
      f4 == handleInputChange(f3, "email", in.email)
      f5 == handleInputChange(f4, "hobbies", in.hobbies)
      f6 == handleProfilePictureChange(f5, in.profilePicture)
  IN handleSourceCodeChange(f6, in.sourceCode)

\* the developer edits the form (every input is disabled while submitting)
EditForm(s, in) ==
  /\ formRendered(s)
  /\ ~submitting[s]
  /\ LET fs == filledForm([formData |-> formData[s], errors |-> errors[s]], in)
     IN /\ formData' = [formData EXCEPT ![s] = fs.formData]
        /\ errors' = [errors EXCEPT ![s] = fs.errors]
  /\ UNCHANGED <<storeVars, evalVars, mail, sharedVars, dpc, submitting,
                 hasSubmission, userId, attempt, attempts>>

(***************************************************************************)
(* SubmitPage.handleSubmit: one step per await                             *)
(***************************************************************************)
\* a variant of submitFailed without the finally block
submitFailedStillSubmitting(s) ==
  /\ dpc' = [dpc EXCEPT ![s] = "page"]
  /\ submitting' = submitting
  /\ attempt' = [attempt EXCEPT ![s] = NoAttempt]

\* catch { toast.error } finally { setSubmitting(false) }
submitFailed(s) ==
  /\ dpc' = [dpc EXCEPT ![s] = "page"]
  /\ submitting' = [submitting EXCEPT ![s] = FALSE]
  /\ attempt' = [attempt EXCEPT ![s] = NoAttempt]

\* a variant of validationFailed that reads .length of the map itself
validationFailedNever(s) == FALSE

\* Object.keys(validationErrors).length > 0
validationFailed(s) == DOMAIN validateSubmissionForm(formData[s]) # {}

\* the submit button is rendered and enabled; validation; setSubmitting(true);
\* the userId check; the call of compressImage
handleSubmit(s) ==
  /\ formRendered(s)
  /\ ~submitting[s]
  /\ attempts[s] < MaxAttempts
  /\ attempts' = [attempts EXCEPT ![s] = @ + 1]
  /\ LET validationErrors == validateSubmissionForm(formData[s])
     IN IF validationFailed(s)
          THEN /\ errors' = [errors EXCEPT ![s] = validationErrors]
               /\ UNCHANGED <<dpc, submitting>>
          ELSE /\ UNCHANGED errors
               /\ IF userId[s] = Null
                    THEN UNCHANGED <<dpc, submitting>>
                    ELSE /\ dpc' = [dpc EXCEPT ![s] = "compress"]
                         /\ submitting' = [submitting EXCEPT ![s] = TRUE]
  /\ UNCHANGED <<storeVars, evalVars, mail, sharedVars, hasSubmission, userId,
                 formData, attempt>>

\* await compressImage(formData.profilePicture!), then the image upload starts
SubmitCompress(s, out) ==
  /\ dpc[s] = "compress"
  /\ out \in {"ok", "throw"}
  /\ IF out = "ok"
       THEN LET compressedImage ==
                  compressedFile(Val(formData[s].profilePicture))
                imageExt == splitPop(compressedImage.name)
            IN /\ attempt' =
                    [attempt EXCEPT
                       ![s] = [@ EXCEPT
                          !.compressedImage = Some(compressedImage),
                          !.imagePath =
                             Some(storagePath(Val(userId[s]), "profile",
                                              imageExt))]]
               /\ dpc' = [dpc EXCEPT ![s] = "uploadImage"]
               /\ issued' = [issued EXCEPT ![s] = @ \cup {"upload"}]
               /\ UNCHANGED submitting
       ELSE /\ submitFailed(s)
            /\ UNCHANGED issued
  /\ UNCHANGED <<storeVars, evalVars, mail, user, profile, signedOut, loading,
                 hasSubmission, userId, formData, errors, attempts>>

\* a variant of uploadFailed that goes on after an error result
uploadFailedOnThrowOnly(out) == out = "throw"

\* the awaited upload threw, or if (imageUploadError) / if (codeUploadError)
\* throws
uploadFailed(out) == out # "ok"

\* the profile-pictures upload returns; getPublicUrl; the source-code upload
\* starts
SubmitUploadImage(s, out) ==
  /\ dpc[s] = "uploadImage"
  /\ blobs' = IF out = "ok"
               THEN upload("profile-pictures", Val(attempt[s].imagePath),
                           Val(attempt[s].compressedImage))
               ELSE blobs
  /\ IF ~uploadFailed(out)
       THEN LET codeExt == splitPop(Val(formData[s].sourceCode).name)
            IN /\ attempt' =
                    [attempt EXCEPT
                       ![s] = [@ EXCEPT
                          !.codePath =
                             Some(storagePath(Val(userId[s]), "source-code",
                                              codeExt))]]
               /\ dpc' = [dpc EXCEPT ![s] = "uploadCode"]
               /\ UNCHANGED submitting
       ELSE submitFailed(s)
  /\ UNCHANGED <<rows, notifs, writes, started, evalVars, mail, sharedVars, hasSubmission,
                 userId, formData, errors, attempts>>

\* the source-code upload returns; getPublicUrl; the insert starts
SubmitUploadCode(s, out) ==
  /\ dpc[s] = "uploadCode"
  /\ blobs' = IF out = "ok"
               THEN upload("source-code", Val(attempt[s].codePath),
                           Val(formData[s].sourceCode))
               ELSE blobs
  /\ IF ~uploadFailed(out)
       THEN /\ dpc' = [dpc EXCEPT ![s] = "insert"]
            /\ issued' = [issued EXCEPT ![s] = @ \cup {"insert"}]
            /\ UNCHANGED <<submitting, attempt>>
       ELSE /\ submitFailed(s)
            /\ UNCHANGED issued
  /\ UNCHANGED <<rows, notifs, writes, started, evalVars, mail, user, profile, signedOut, loading,
                 hasSubmission, userId, formData, errors, attempts>>

\* a variant of insertResult in which a refused insert still leaves its row
insertResultAlways(s, out) ==
  Append(rows,
         newRow(Val(userId[s]), formData[s],
                getPublicUrl("profile-pictures", Val(attempt[s].imagePath)),
                getPublicUrl("source-code", Val(attempt[s].codePath))))

\* the table after submissions.insert({...}) ended with out
insertResult(s, out) ==
  IF out = "ok"
    THEN Append(rows,
                newRow(Val(userId[s]), formData[s],
                       getPublicUrl("profile-pictures",
                                    Val(attempt[s].imagePath)),
                       getPublicUrl("source-code", Val(attempt[s].codePath))))
    ELSE rows

\* the insert returns: setHasSubmission(true), or the catch block
SubmitInsert(s, out) ==
  /\ dpc[s] = "insert"
  /\ rows' = insertResult(s, out)
  /\ IF out = "ok"
       THEN /\ hasSubmission' = [hasSubmission EXCEPT ![s] = TRUE]
            /\ events' = broadcast
            /\ submitFailed(s)
       ELSE /\ submitFailed(s)
            /\ UNCHANGED <<hasSubmission, events>>
  /\ UNCHANGED <<blobs, notifs, writes, started, sharedVars, mail, userId, formData,
                 errors, attempts, epc, submissions, selectedSubmission,
                 feedback, processing, call, last, subscribed, fetches>>

SubmitStep(s) ==
  \/ \E out \in {"ok", "throw"} : \E u \in {Null} \cup {Some(x) : x \in Users} :
       SubmitGetUser(s, out, u)
  \/ \E out \in Outcomes : SubmitProfile(s, out)
  \/ \E out \in Outcomes : SubmitSignOut(s, out)
  \/ \E out \in Outcomes : SubmitExisting(s, out)
  \/ \E in \in FormInputs : EditForm(s, in)
  \/ handleSubmit(s)
  \/ \E out \in Outcomes : SubmitCompress(s, out)
  \/ \E out \in Outcomes : SubmitUploadImage(s, out)
  \/ \E out \in Outcomes : SubmitUploadCode(s, out)
  \/ \E out \in Outcomes : SubmitInsert(s, out)

\* an awaited call of the handleSubmit of s returns
SubmitReturns(s) ==
  \E out \in Outcomes :
    \/ SubmitCompress(s, out)
    \/ SubmitUploadImage(s, out)
    \/ SubmitUploadCode(s, out)
    \/ SubmitInsert(s, out)

NextSubmit == \E s \in DevSessions : SubmitStep(s)

\* the developer sessions alone
SpecSubmit == Init /\ [][NextSubmit]_vars

\* the developer sessions when every awaited call settles: the handler is
\* resumed once the promise it awaits resolves or rejects
FairSubmit ==
  /\ SpecSubmit
  /\ \A s \in DevSessions : WF_vars(SubmitReturns(s))

\* n digits with sep between them
RECURSIVE grouped(_, _)
grouped(n, sep) ==
  IF n = 0 THEN <<>>
  ELSE IF n = 1 THEN <<"1">>
  ELSE grouped(n - 1, sep) \o sep \o << <<"0", "1", "2", "3", "4", "5", "6", "7", "8", "9">>[(n % 10) + 1] >>

\* what is typed around and between the digits of a phone number
PhoneAffixes == { <<>>, <<" ">>, <<"+">>, <<"(", "x", ")">> }

PhoneSeparators == { <<>>, <<"-">>, <<" ">> }

\* the phone numbers typed into the form
PhoneInputs ==
  { pre \o grouped(n, sep) \o suf :
      n \in 0..MaxPhoneDigits, sep \in PhoneSeparators,
      pre \in PhoneAffixes, suf \in PhoneAffixes }

\* the developer types a phone number: handleInputChange on phoneNumber
EnterPhone(s, phone) ==
  /\ formRendered(s)
  /\ ~submitting[s]
  /\ LET fs == handleInputChange([formData |-> formData[s], errors |-> errors[s]],
                                 "phoneNumber", phone)
     IN /\ formData' = [formData EXCEPT ![s] = fs.formData]
        /\ errors' = [errors EXCEPT ![s] = fs.errors]
  /\ UNCHANGED <<storeVars, evalVars, mail, sharedVars, dpc, submitting,
                 hasSubmission, userId, attempt, attempts>>

\* session d1 of u1 has passed checkAuth on an empty table: the form is
\* rendered
InitForm ==
  /\ rows = <<>>
  /\ blobs = {}
  /\ notifs = <<>>
  /\ writes = <<>>
  /\ started = 0
  /\ mail = NoMail
  /\ dpc = [s \in DevSessions |-> IF s = "d1" THEN "page" ELSE "getUser"]
  /\ epc = [e \in EvalSessions |-> "getUser"]
  /\ user = [s \in Sessions |-> IF s = "d1" THEN Some("u1") ELSE Null]
  /\ profile = [s \in Sessions |->
                  IF s = "d1" THEN profileLookup("ok", "u1") ELSE Null]
  /\ signedOut = [s \in Sessions |-> FALSE]
  /\ issued = [s \in Sessions |-> IF s = "d1" THEN {"select"} ELSE {}]
  /\ loading = [s \in Sessions |-> s # "d1"]
  /\ submitting = [s \in DevSessions |-> FALSE]
  /\ hasSubmission = [s \in DevSessions |-> FALSE]
  /\ userId = [s \in DevSessions |-> IF s = "d1" THEN Some("u1") ELSE Null]
  /\ formData = [s \in DevSessions |-> EmptyForm]
  /\ errors = [s \in DevSessions |-> NoErrors]
  /\ attempt = [s \in DevSessions |-> NoAttempt]
  /\ attempts = [s \in DevSessions |-> 0]
  /\ submissions = [e \in EvalSessions |-> <<>>]
  /\ selectedSubmission = [e \in EvalSessions |-> Null]
  /\ feedback = [e \in EvalSessions |-> <<>>]
  /\ processing = [e \in EvalSessions |-> FALSE]
  /\ call = [e \in EvalSessions |-> NoCall]
  /\ last = [e \in EvalSessions |-> [via |-> None, result |-> None]]
  /\ subscribed = [e \in EvalSessions |-> FALSE]
  /\ events = [e \in EvalSessions |-> 0]
  /\ fetches = [e \in EvalSessions |-> {}]

NextPhone ==
  \/ \E phone \in PhoneInputs : EnterPhone("d1", phone)
  \/ handleSubmit("d1")

\* phone numbers typed into the form and submitted
SpecPhone == InitForm /\ [][NextPhone]_vars

\* the files picked in the profile picture input
ImageInputs ==
  { ImagePng, ImageJpg, ImageGif,
    [name |-> <<"me", "webp">>, type |-> "image/webp", size |-> MaxImageBytes],
    [name |-> <<"big", "png">>, type |-> "image/png", size |-> MaxImageBytes + 1],
    [name |-> <<"me", "zip">>, type |-> "application/zip", size |-> 4096] }

\* the files picked in the source code input
ArchiveInputs ==
  { ArchiveZip, ArchiveTar,
    [name |-> <<"all", "zip">>, type |-> "application/zip",
     size |-> MaxSourceCodeBytes],
    [name |-> <<"big", "zip">>, type |-> "application/zip",
     size |-> MaxSourceCodeBytes + 1],
    [name |-> <<"src", "ZIP">>, type |-> "application/zip", size |-> 4096],
    [name |-> <<"zip">>, type |-> "", size |-> 4096] }

\* the developer picks a file in the profile picture input
PickProfilePicture(s, file) ==
  /\ formRendered(s)
  /\ ~submitting[s]
  /\ LET fs == handleProfilePictureChange(
                 [formData |-> formData[s], errors |-> errors[s]], file)
     IN /\ formData' = [formData EXCEPT ![s] = fs.formData]
        /\ errors' = [errors EXCEPT ![s] = fs.errors]
  /\ UNCHANGED <<storeVars, evalVars, mail, sharedVars, dpc, submitting,
                 hasSubmission, userId, attempt, attempts>>

\* the developer picks a file in the source code input
PickSourceCode(s, file) ==
  /\ formRendered(s)
  /\ ~submitting[s]
  /\ LET fs == handleSourceCodeChange(
                 [formData |-> formData[s], errors |-> errors[s]], file)
     IN /\ formData' = [formData EXCEPT ![s] = fs.formData]
        /\ errors' = [errors EXCEPT ![s] = fs.errors]
  /\ UNCHANGED <<storeVars, evalVars, mail, sharedVars, dpc, submitting,
                 hasSubmission, userId, attempt, attempts>>

NextFiles ==
  \/ \E file \in ImageInputs : PickProfilePicture("d1", file)
  \/ \E file \in ArchiveInputs : PickSourceCode("d1", file)
  \/ \E in \in FormInputs : EditForm("d1", in)
  \/ handleSubmit("d1")
  \/ SubmitReturns("d1")

\* one developer session picking files, editing and submitting
SpecFiles == InitForm /\ [][NextFiles]_vars

\* the lengths of the texts typed into the hobbies box: around both limits
HobbiesLengths == (0..22) \cup (998..1002)

\* white space typed before and after the text
HobbiesPadding == { <<>>, <<" ">>, <<"\n", " ">> }

\* the texts typed into the hobbies box
HobbiesInputs ==
  { pre \o Str(n, "h") \o suf :
      n \in HobbiesLengths, pre \in HobbiesPadding, suf \in HobbiesPadding }

\* the developer types into the hobbies box: handleInputChange on hobbies
EnterHobbies(s, text) ==
  /\ formRendered(s)
  /\ ~submitting[s]
  /\ LET fs == handleInputChange([formData |-> formData[s], errors |-> errors[s]],
                                 "hobbies", text)
     IN /\ formData' = [formData EXCEPT ![s] = fs.formData]
        /\ errors' = [errors EXCEPT ![s] = fs.errors]
  /\ UNCHANGED <<storeVars, evalVars, mail, sharedVars, dpc, submitting,
                 hasSubmission, userId, attempt, attempts>>

NextHobbies ==
  \/ \E text \in HobbiesInputs : EnterHobbies("d1", text)
  \/ handleSubmit("d1")

\* hobbies typed into the form and submitted
SpecHobbies == InitForm /\ [][NextHobbies]_vars

(***************************************************************************)
(* EvaluatePage.checkAuth, loadSubmissions, subscribeToSubmissions         *)
(***************************************************************************)
RECURSIVE reverse(_)
reverse(q) == IF q = <<>> THEN <<>> ELSE Append(reverse(Tail(q)), Head(q))

\* submissions.select("*").order("created_at", {ascending: false}) is sent:
\* the fetch carries the list the table holds at that moment
fetchOf(by) == [data |-> reverse(rows), by |-> by]

\* what no step of EvaluatePage touches
devUnchanged ==
  UNCHANGED <<dpc, submitting, hasSubmission, userId, formData, errors,
              attempt, attempts, mail>>

\* await supabase.auth.getUser()
EvalGetUser(e, out, u) ==
  /\ epc[e] = "getUser"
  /\ IF out = "throw" \/ u = Null
       THEN /\ epc' = [epc EXCEPT ![e] = "login"]
            /\ user' = user
       ELSE /\ epc' = [epc EXCEPT ![e] = "profile"]
            /\ user' = [user EXCEPT ![e] = u]
  /\ devUnchanged
  /\ UNCHANGED <<storeVars, profile, signedOut, issued, loading, submissions,
                 selectedSubmission, feedback, processing, call, last,
                 subscribed, events, fetches>>

\* profileError || profile.role !== "evaluator"
evalRoleDenied(out, u) == out = "error" \/ profileRole(u) # "evaluator"

\* the profile lookup returns; the role check; loadSubmissions is called
EvalProfile(e, out) ==
  /\ epc[e] = "profile"
  /\ profile' = [profile EXCEPT ![e] = profileLookup(out, Val(user[e]))]
  /\ IF out = "throw"
       THEN /\ epc' = [epc EXCEPT ![e] = "login"]
            /\ UNCHANGED <<signedOut, issued, fetches>>
       ELSE IF evalRoleDenied(out, Val(user[e]))
         THEN /\ epc' = [epc EXCEPT ![e] = "signOut"]
              /\ signedOut' = [signedOut EXCEPT ![e] = TRUE]
              /\ UNCHANGED <<issued, fetches>>
         ELSE /\ epc' = [epc EXCEPT ![e] = "load"]
              /\ issued' = [issued EXCEPT ![e] = @ \cup {"select"}]
              /\ fetches' = [fetches EXCEPT ![e] = @ \cup {fetchOf("auth")}]
              /\ UNCHANGED signedOut
  /\ devUnchanged
  /\ UNCHANGED <<storeVars, user, loading, submissions, selectedSubmission,
                 feedback, processing, call, last, subscribed, events>>

\* await supabase.auth.signOut(), then router.push("/login")
EvalSignOut(e, out) ==
  /\ epc[e] = "signOut"
  /\ out \in {"ok", "throw"}
  /\ epc' = [epc EXCEPT ![e] = "login"]
  /\ devUnchanged
  /\ UNCHANGED <<storeVars, sharedVars, submissions, selectedSubmission,
                 feedback, processing, call, last, subscribed, events,
                 fetches>>

\* the body of loadSubmissions once its query has ended with out
loadedList(e, f, out) == IF out = "ok" THEN f.data ELSE submissions[e]

loadedLoading(e, out) == IF out = "error" THEN loading[e] ELSE FALSE

\* a fetch of loadSubmissions returns; then whoever awaited it goes on:
\* checkAuth subscribes, handleDecision runs its finally block
FetchReturn(e, f, out) ==
  /\ f \in fetches[e]
  /\ fetches' = [fetches EXCEPT ![e] = @ \ {f}]
  /\ submissions' = [submissions EXCEPT ![e] = loadedList(e, f, out)]
  /\ loading' = [loading EXCEPT ![e] = loadedLoading(e, out)]
  /\ CASE f.by = "auth" ->
            /\ subscribed' = [subscribed EXCEPT ![e] = TRUE]
            /\ issued' = [issued EXCEPT ![e] = @ \cup {"subscribe"}]
            /\ epc' = [epc EXCEPT ![e] = "idle"]
            /\ UNCHANGED <<processing, call>>
       [] f.by = "decision" ->
            /\ processing' = [processing EXCEPT ![e] = FALSE]
            /\ call' = [call EXCEPT ![e] = NoCall]
            /\ epc' = [epc EXCEPT ![e] = "idle"]
            /\ UNCHANGED <<subscribed, issued>>
       [] OTHER -> UNCHANGED <<subscribed, issued, epc, processing, call>>
  /\ devUnchanged
  /\ UNCHANGED <<storeVars, user, profile, signedOut, selectedSubmission, feedback,
                 last, events>>

\* the subscription callback: a change event calls loadSubmissions
ChangeEvent(e) ==
  /\ events[e] > 0
  /\ Cardinality(fetches[e]) < MaxInFlight
  /\ events' = [events EXCEPT ![e] = @ - 1]
  /\ fetches' = [fetches EXCEPT ![e] = @ \cup {fetchOf("event")}]
  /\ issued' = [issued EXCEPT ![e] = @ \cup {"select"}]
  /\ devUnchanged
  /\ UNCHANGED <<storeVars, user, profile, signedOut, loading, epc, submissions,
                 selectedSubmission, feedback, processing, call, last,
                 subscribed>>

(***************************************************************************)
(* EvaluatePage: selection, feedback, handleDecision                       *)
(***************************************************************************)
\* the dashboard is what the component renders
dashboardRendered(e) ==
  epc[e] \in {"idle", "update", "updated", "notify", "reload"} /\ ~loading[e]

\* a variant of feedbackOrEmpty that always clears the box
feedbackOrEmptyCleared(row) == <<>>

\* submission.feedback || ""
feedbackOrEmpty(row) == IF row.feedback = Null THEN <<>> ELSE Val(row.feedback)

handleSelectSubmission(e, i) ==
  /\ dashboardRendered(e)
  /\ i \in 1..Len(submissions[e])
  /\ selectedSubmission' =
       [selectedSubmission EXCEPT ![e] = Some(submissions[e][i])]
  /\ feedback' = [feedback EXCEPT ![e] = feedbackOrEmpty(submissions[e][i])]
  /\ devUnchanged
  /\ UNCHANGED <<storeVars, sharedVars, epc, submissions, processing, call,
                 last, subscribed, events, fetches>>

\* the textarea: disabled={processing || selectedSubmission.status !== "pending"}
feedbackEditable(e) ==
  /\ dashboardRendered(e)
  /\ Len(submissions[e]) > 0
  /\ selectedSubmission[e] # Null
  /\ ~processing[e]
  /\ Val(selectedSubmission[e]).status = "pending"

\* onChange={(e) => setFeedback(e.target.value)}
SetFeedback(e, text) ==
  /\ feedbackEditable(e)
  /\ text # feedback[e]
  /\ feedback' = [feedback EXCEPT ![e] = text]
  /\ devUnchanged
  /\ UNCHANGED <<storeVars, sharedVars, epc, submissions, selectedSubmission,
                 processing, call, last, subscribed, events, fetches>>

\* a variant of decisionButtonsEnabled that renders the buttons for a decided
\* submission too
decisionButtonsAnyStatus(e) ==
  /\ dashboardRendered(e)
  /\ Len(submissions[e]) > 0
  /\ selectedSubmission[e] # Null
  /\ ~processing[e]
  /\ trim(feedback[e]) # <<>>

\* the Accept and Reject buttons are rendered and enabled
decisionButtonsEnabled(e) ==
  /\ dashboardRendered(e)
  /\ Len(submissions[e]) > 0
  /\ selectedSubmission[e] # Null
  /\ Val(selectedSubmission[e]).status = "pending"
  /\ ~processing[e]
  /\ trim(feedback[e]) # <<>>

\* a variant of decisionReturnsEarly that tests the feedback without trim()
decisionReturnsEarlyUntrimmed(e) ==
  IF selectedSubmission[e] = Null THEN "noSelection"
  ELSE IF feedback[e] = <<>> THEN "noFeedback"
  ELSE None

\* the early returns of handleDecision
decisionReturnsEarly(e) ==
  IF selectedSubmission[e] = Null THEN "noSelection"
  ELSE IF trim(feedback[e]) = <<>> THEN "noFeedback"
  ELSE None

\* handleDecision up to its first await: the early returns, setProcessing(true)
\* and the update it sends
handleDecision(e, decision, via) ==
  /\ epc[e] = "idle"
  /\ IF decisionReturnsEarly(e) # None
       THEN /\ last' = [last EXCEPT
                          ![e] = [via |-> via, result |-> decisionReturnsEarly(e)]]
            /\ UNCHANGED <<epc, processing, call, started, issued>>
       ELSE /\ started < MaxDecisions
            /\ started' = started + 1
            /\ last' = [last EXCEPT ![e] = [via |-> via, result |-> "update"]]
            /\ processing' = [processing EXCEPT ![e] = TRUE]
            /\ call' = [call EXCEPT
                          ![e] = Some([sub |-> Val(selectedSubmission[e]),
                                       feedback |-> feedback[e],
                                       decision |-> decision,
                                       n |-> started + 1])]
            /\ issued' = [issued EXCEPT ![e] = @ \cup {"update"}]
            /\ epc' = [epc EXCEPT ![e] = "update"]
  /\ devUnchanged
  /\ UNCHANGED <<rows, blobs, notifs, writes, user, profile, signedOut, loading,
                 submissions, selectedSubmission, feedback, subscribed,
                 events, fetches>>

\* a click on Accept or Reject
ClickDecision(e, decision) ==
  /\ decisionButtonsEnabled(e)
  /\ handleDecision(e, decision, "button")

\* handleDecision invoked while its buttons are not rendered or are disabled
CallDecision(e, decision) ==
  /\ epc[e] = "idle"
  /\ ~decisionButtonsEnabled(e)
  /\ handleDecision(e, decision, "call")

\* a variant of decisionUpdate that writes pending rows only
decisionUpdateIfPending(c) ==
  [i \in 1..Len(rows) |->
     IF rows[i].id = c.sub.id /\ rows[i].status = "pending"
       THEN [rows[i] EXCEPT !.status = c.decision,
                            !.feedback = Some(trim(c.feedback))]
       ELSE rows[i]]

\* a variant of decisionUpdate without the .eq("id", ...) filter
decisionUpdateEveryRow(c) ==
  [i \in 1..Len(rows) |->
     [rows[i] EXCEPT !.status = c.decision,
                     !.feedback = Some(trim(c.feedback))]]

\* .update({status: decision, feedback: feedback.trim()}).eq("id", id)
decisionUpdate(c) ==
  [i \in 1..Len(rows) |->
     IF rows[i].id = c.sub.id
       THEN [rows[i] EXCEPT !.status = c.decision,
                            !.feedback = Some(trim(c.feedback))]
       ELSE rows[i]]

\* a variant of notification that sends the feedback as typed
notificationUntrimmed(c) ==
  [to |-> c.sub.email,
   name |-> c.sub.full_name,
   decision |-> c.decision,
   feedback |-> c.feedback,
   n |-> c.n,
   id |-> c.sub.id]

\* the body of the request to /api/send-email
notification(c) ==
  [to |-> c.sub.email,
   name |-> c.sub.full_name,
   decision |-> c.decision,
   feedback |-> trim(c.feedback),
   n |-> c.n,
   id |-> c.sub.id]

\* a variant of decisionFailed without the finally block
decisionFailedStillProcessing(e) ==
  /\ processing' = processing
  /\ call' = [call EXCEPT ![e] = NoCall]
  /\ epc' = [epc EXCEPT ![e] = "idle"]

\* catch { toast.error } finally { setProcessing(false) }
decisionFailed(e) ==
  /\ processing' = [processing EXCEPT ![e] = FALSE]
  /\ call' = [call EXCEPT ![e] = NoCall]
  /\ epc' = [epc EXCEPT ![e] = "idle"]

\* a variant of updateFailed that goes on after an error result
updateFailedOnThrowOnly(out) == out = "throw"

\* the awaited update threw, or if (updateError) throws
updateFailed(out) == out # "ok"

\* the table handles the update: it applies it, or refuses it
DecisionUpdate(e, out) ==
  /\ epc[e] = "update"
  /\ IF out = "ok"
       THEN /\ rows' = decisionUpdate(Val(call[e]))
            /\ writes' = Append(writes,
                                [n |-> Val(call[e]).n,
                                 id |-> Val(call[e]).sub.id,
                                 status |-> Val(call[e]).decision,
                                 feedback |-> trim(Val(call[e]).feedback)])
            /\ events' = broadcast
       ELSE UNCHANGED <<rows, writes, events>>
  /\ IF ~updateFailed(out)
       THEN /\ epc' = [epc EXCEPT ![e] = "updated"]
            /\ UNCHANGED <<processing, call>>
       ELSE decisionFailed(e)
  /\ devUnchanged
  /\ UNCHANGED <<blobs, notifs, started, sharedVars, submissions,
                 selectedSubmission, feedback, last, subscribed, fetches>>

\* the requests sent to /api/send-email once the update has returned without
\* an error
notifsAfterUpdate(e) == Append(notifs, notification(Val(call[e])))

\* the answer of the update reaches the session: updateError is null, so the
\* notification request is sent
DecisionUpdated(e) ==
  /\ epc[e] = "updated"
  /\ notifs' = notifsAfterUpdate(e)
  /\ epc' = [epc EXCEPT ![e] = "notify"]
  /\ devUnchanged
  /\ UNCHANGED <<rows, blobs, writes, started, sharedVars, submissions,
                 selectedSubmission, feedback, processing, call, last,
                 subscribed, events, fetches>>

\* the notification call returns a response (ok or not) or throws
DecisionNotify(e, out) ==
  /\ epc[e] = "notify"
  /\ IF out = "throw"
       THEN /\ decisionFailed(e)
            /\ UNCHANGED <<selectedSubmission, feedback, fetches, issued>>
       ELSE /\ selectedSubmission' = [selectedSubmission EXCEPT ![e] = Null]
            /\ feedback' = [feedback EXCEPT ![e] = <<>>]
            /\ fetches' = [fetches EXCEPT ![e] = @ \cup {fetchOf("decision")}]
            /\ issued' = [issued EXCEPT ![e] = @ \cup {"select"}]
            /\ epc' = [epc EXCEPT ![e] = "reload"]
            /\ UNCHANGED <<processing, call>>
  /\ devUnchanged
  /\ UNCHANGED <<storeVars, user, profile, signedOut, loading, submissions, last,
                 subscribed, events>>

(***************************************************************************)
(* POST /api/send-email                                                    *)
(***************************************************************************)
MailFields == {"to", "name", "decision", "feedback"}

\* a field of the parsed body: absent, the empty string, or a string
FieldInputs == {Null, Some(<<>>), Some(<<"x">>)}

\* the bodies request.json() returns
BodyInputs == [MailFields -> FieldInputs]

\* process.env: whether MAILJET_API_KEY and MAILJET_SECRET_KEY are set
EnvInputs == [apiKey : BOOLEAN, secretKey : BOOLEAN]

\* !v for a field of the body
falsy(v) == v = Null \/ Val(v) = <<>>

\* a variant of postChecks that looks at the credentials first
postChecksCredentialsFirst(body, env) ==
  IF ~env.apiKey \/ ~env.secretKey THEN 500
  ELSE IF \E f \in MailFields : falsy(body[f]) THEN 400
  ELSE 0

\* the status POST answers with before it calls the provider, 0 when it goes
\* on to the call
postChecks(body, env) ==
  IF \E f \in MailFields : falsy(body[f]) THEN 400
  ELSE IF ~env.apiKey \/ ~env.secretKey THEN 500
  ELSE 0

\* POST up to its await of fetch("https://api.mailjet.com/v3.1/send")
Post(body, env) ==
  /\ mail = NoMail \/ mail.status # 0
  /\ mail' = [body |-> Some(body),
              env |-> Some(env),
              status |-> postChecks(body, env),
              sent |-> IF postChecks(body, env) = 0 THEN 1 ELSE 0]
  /\ UNCHANGED <<storeVars, devVars, evalVars, sharedVars>>

\* the provider answers (ok or not) or the call throws: 200, or the catch
\* block's 500
PostProviderReturns(out) ==
  /\ mail # NoMail
  /\ mail.status = 0
  /\ mail' = [mail EXCEPT !.status = IF out = "ok" THEN 200 ELSE 500]
  /\ UNCHANGED <<storeVars, devVars, evalVars, sharedVars>>

NextMail ==
  \/ \E body \in BodyInputs : \E env \in EnvInputs : Post(body, env)
  \/ \E out \in Outcomes : PostProviderReturns(out)

\* the route alone
SpecMail == Init /\ [][NextMail]_vars

ReviewStep(e) ==
  \/ \E out \in {"ok", "throw"} : \E u \in {Null} \cup {Some(x) : x \in Users} :
       EvalGetUser(e, out, u)
  \/ \E out \in Outcomes : EvalProfile(e, out)
  \/ \E out \in Outcomes : EvalSignOut(e, out)
  \/ \E f \in fetches[e] : \E out \in Outcomes : FetchReturn(e, f, out)
  \/ \E i \in 1..Len(submissions[e]) : handleSelectSubmission(e, i)
  \/ \E text \in FeedbackInputs : SetFeedback(e, text)
  \/ \E decision \in Decisions : ClickDecision(e, decision)
  \/ \E out \in Outcomes : DecisionUpdate(e, out)
  \/ DecisionUpdated(e)
  \/ \E out \in Outcomes : DecisionNotify(e, out)

NextReview == \E e \in EvalSessions : ReviewStep(e)

\* the table as submit attempts leave it
InitStores ==
  { <<rowOf(1, "u1", FormAl,
            getPublicUrl("profile-pictures", storagePath("u1", "profile", "png")),
            getPublicUrl("source-code", storagePath("u1", "source-code", "zip")))>> }

InitReview ==
  /\ InitSessions
  /\ rows \in InitStores
  /\ blobs = {}

\* the evaluator sessions while the change events stay undelivered (the channel
\* is best-effort)
SpecReview == InitReview /\ [][NextReview]_vars

\* an awaited call of the checkAuth or the handleDecision of e returns
EvalReturns(e) ==
  \E out \in Outcomes :
    \/ \E u \in {Null} \cup {Some(x) : x \in Users} : EvalGetUser(e, out, u)
    \/ EvalProfile(e, out)
    \/ EvalSignOut(e, out)
    \/ \E f \in fetches[e] : FetchReturn(e, f, out)
    \/ DecisionUpdate(e, out)
    \/ DecisionUpdated(e)
    \/ DecisionNotify(e, out)

\* the evaluator sessions when every awaited call settles
FairReview ==
  /\ SpecReview
  /\ \A e \in EvalSessions : WF_vars(EvalReturns(e))

\* the evaluator sessions with the change events delivered
NextLive ==
  \/ NextReview
  \/ \E e \in EvalSessions : ChangeEvent(e)

SpecLive == InitReview /\ [][NextLive]_vars

\* one evaluator session whose handleDecision is also invoked directly
NextCall ==
  \/ ReviewStep("e1")
  \/ ChangeEvent("e1")
  \/ \E decision \in Decisions : CallDecision("e1", decision)

SpecCall == InitReview /\ [][NextCall]_vars

\* both evaluators have passed checkAuth on the table of InitStores: the list
\* is loaded and the subscription is established
InitRefetch ==
  /\ rows \in InitStores
  /\ blobs = {}
  /\ notifs = <<>>
  /\ writes = <<>>
  /\ started = 0
  /\ dpc = [s \in DevSessions |-> "getUser"]
  /\ submitting = [s \in DevSessions |-> FALSE]
  /\ hasSubmission = [s \in DevSessions |-> FALSE]
  /\ userId = [s \in DevSessions |-> Null]
  /\ formData = [s \in DevSessions |-> EmptyForm]
  /\ errors = [s \in DevSessions |-> NoErrors]
  /\ attempt = [s \in DevSessions |-> NoAttempt]
  /\ attempts = [s \in DevSessions |-> 0]
  /\ epc = [e \in EvalSessions |-> "idle"]
  /\ user = [s \in Sessions |-> IF s \in EvalSessions THEN Some("v1") ELSE Null]
  /\ profile = [s \in Sessions |->
                  IF s \in EvalSessions THEN profileLookup("ok", "v1") ELSE Null]
  /\ signedOut = [s \in Sessions |-> FALSE]
  /\ issued = [s \in Sessions |->
                 IF s \in EvalSessions THEN {"select", "subscribe"} ELSE {}]
  /\ loading = [s \in Sessions |-> s \in DevSessions]
  /\ submissions = [e \in EvalSessions |-> reverse(rows)]
  /\ selectedSubmission = [e \in EvalSessions |-> Null]
  /\ feedback = [e \in EvalSessions |-> <<>>]
  /\ processing = [e \in EvalSessions |-> FALSE]
  /\ call = [e \in EvalSessions |-> NoCall]
  /\ last = [e \in EvalSessions |-> [via |-> None, result |-> None]]
  /\ subscribed = [e \in EvalSessions |-> TRUE]
  /\ events = [e \in EvalSessions |-> 0]
  /\ fetches = [e \in EvalSessions |-> {}]
  /\ mail = NoMail

\* the steps of a session past checkAuth whose fetches return their list
RefetchStep(e) ==
  \/ \E f \in fetches[e] : FetchReturn(e, f, "ok")
  \/ \E i \in 1..Len(submissions[e]) : handleSelectSubmission(e, i)
  \/ \E text \in FeedbackInputs : SetFeedback(e, text)
  \/ \E decision \in Decisions : ClickDecision(e, decision)
  \/ \E out \in Outcomes : DecisionUpdate(e, out)
  \/ DecisionUpdated(e)
  \/ \E out \in Outcomes : DecisionNotify(e, out)

\* two subscribed sessions decide; the change events reach e1 (those of e2
\* stay undelivered: the channel is best-effort)
NextRefetch ==
  \/ \E e \in EvalSessions : RefetchStep(e)
  \/ ChangeEvent("e1")

SpecRefetch == InitRefetch /\ [][NextRefetch]_vars

\* one developer session and one evaluator session, from an empty table
Next ==
  \/ SubmitStep("d1")
  \/ ReviewStep("e1")
  \/ ChangeEvent("e1")

Spec == Init /\ [][Next]_vars

\* one developer session and one evaluator session on the table of
\* InitStores, the change events undelivered
NextPortal ==
  \/ SubmitStep("d1")
  \/ ReviewStep("e1")

SpecPortal == InitReview /\ [][NextPortal]_vars

(***************************************************************************)
(* Properties of the submit workflow                                       *)
(***************************************************************************)
\* C1: the table holds at most one Submission row per user_id, whatever the
\* interleaving of the sessions of one user.
C1_OneRowPerUser ==
  \A u \in Users : Len(rowsOfUser(u)) <= 1

\* C5: a session whose existence query returns while the table holds at least
\* one row of its user ends with hasSubmission = true, whatever the query
\* returned.
C5_ExistingRowBlocks ==
  [][\A s \in DevSessions :
       (/\ dpc[s] = "existing"
        /\ dpc'[s] = "page"
        /\ Len(rowsOfUser(Val(user[s]))) >= 1)
         => hasSubmission'[s]]_vars

\* C6: a submit attempt that fails at the compression, at the image upload, at
\* the archive upload or at the insert leaves the table as it was.
C6_FailedAttemptCreatesNoRow ==
  [][\A s \in DevSessions :
       (/\ dpc[s] \in {"compress", "uploadImage", "uploadCode", "insert"}
        /\ dpc'[s] = "page"
        /\ ~hasSubmission'[s])
         => rows' = rows]_vars

\* an attempt got as far as the insert and failed there
C6_InsertFailed ==
  \E s \in DevSessions :
    /\ dpc[s] = "page"
    /\ attempts[s] >= 1
    /\ "insert" \in issued[s]
    /\ ~submitting[s]
    /\ ~hasSubmission[s]
    /\ rowsOfUser(Val(userId[s])) = <<>>

(***************************************************************************)
(* Role gating of both pages                                               *)
(***************************************************************************)
\* the role each page compares the profile with
requiredRole(s) == IF s \in DevSessions THEN "developer" ELSE "evaluator"

\* the profile lookup returned a profile with the role the page requires
lookupPassed(s) ==
  /\ profile[s] # Null
  /\ ~Val(profile[s]).error
  /\ Val(profile[s]).role = requiredRole(s)

pc(s) == IF s \in DevSessions THEN dpc[s] ELSE epc[s]

\* the page shows its form, its blocked view or its dashboard
workingState(s) ==
  IF s \in DevSessions
    THEN dpc[s] \in {"page", "compress", "uploadImage", "uploadCode", "insert"}
         /\ ~loading[s]
    ELSE dashboardRendered(s)

\* what holds of every session, signed out or not
gated(s) ==
  /\ workingState(s) => lookupPassed(s)
  /\ ~lookupPassed(s) => issued[s] = {}
  /\ ~lookupPassed(s) => pc(s) \in {"getUser", "profile", "signOut", "login"}
  /\ user[s] = Null => ~signedOut[s]

\* C10 as stated: a page works only after a lookup that returned the required
\* role; every other session with an authenticated user is signed out and
\* redirected to login before any submissions query, subscription, upload or
\* insert; a session without a user is redirected without any of them.
C10_SignedOutUnlessRequiredRole ==
  \A s \in Sessions :
    /\ gated(s)
    /\ (user[s] # Null /\ ~lookupPassed(s) /\ pc(s) = "login") => signedOut[s]

\* C10, amended: as above, but the sign-out happens when the lookup returned
\* (an error or another role); when the lookup throws the session is
\* redirected to login without a sign-out.
C10_RedirectedUnlessRequiredRole ==
  \A s \in Sessions :
    /\ gated(s)
    /\ (profile[s] # Null /\ ~lookupPassed(s) /\ pc(s) = "login")
         => signedOut[s]
    /\ (user[s] # Null /\ profile[s] = Null /\ pc(s) = "login")
         => ~signedOut[s]

\* both pages have turned away a user whose profile has another role
C10_BothPagesDenied ==
  \A s \in {"d1", "e1"} :
    /\ pc(s) = "login"
    /\ profile[s] # Null
    /\ ~Val(profile[s]).error
    /\ Val(profile[s]).role # requiredRole(s)
    /\ signedOut[s]
    /\ issued[s] = {}

(***************************************************************************)
(* Properties of the review workflow                                       *)
(***************************************************************************)
\* C2: once the stored status of a row is accepted or rejected, no step
\* changes its status or its feedback.
C2_DecidedRowNeverChanges ==
  [][\A i \in 1..Len(rows) :
       rows[i].status # "pending"
         => /\ rows'[i].status = rows[i].status
            /\ rows'[i].feedback = rows[i].feedback]_vars

\* C3 as stated: handleDecision sends an update only for a selection whose
\* status is pending, however it is invoked.
C3_HandlerRejectsDecided ==
  \A e \in EvalSessions :
    call[e] # Null => Val(call[e]).sub.status = "pending"

\* C3, amended: a decision made with the Accept or Reject button sends an
\* update only for a selection whose status is pending; the check is the
\* rendering of the buttons, handleDecision has none.
C3_ButtonsRejectDecided ==
  \A e \in EvalSessions :
    (call[e] # Null /\ last[e].via = "button")
      => Val(call[e]).sub.status = "pending"

\* a decided submission is selected with feedback in the box, after a decision
\* made with a button: no button is there to decide it again
C3_DecidedSelected ==
  \E e \in EvalSessions :
    /\ dashboardRendered(e)
    /\ epc[e] = "idle"
    /\ ~processing[e]
    /\ last[e] = [via |-> "button", result |-> "update"]
    /\ selectedSubmission[e] # Null
    /\ Val(selectedSubmission[e]).status # "pending"
    /\ trim(feedback[e]) # <<>>
    /\ ~decisionButtonsEnabled(e)

\* C4: handleDecision invoked while the feedback is empty or whitespace
\* changes neither the table nor the notifications, never sets processing and
\* leaves the selection and the feedback as they were.
C4_BlankFeedbackChangesNothing ==
  [][\A e \in EvalSessions :
       (/\ epc[e] = "idle"
        /\ last'[e] # last[e] \/ epc'[e] = "update"
        /\ trim(feedback[e]) = <<>>)
         => /\ rows' = rows
            /\ writes' = writes
            /\ notifs' = notifs
            /\ issued' = issued
            /\ processing' = processing
            /\ call' = call
            /\ epc' = epc
            /\ selectedSubmission' = selectedSubmission
            /\ feedback' = feedback]_vars

\* handleDecision has returned early on a whitespace feedback
C4_WhitespaceRejected ==
  \E e \in EvalSessions :
    /\ last[e] = [via |-> "call", result |-> "noFeedback"]
    /\ selectedSubmission[e] # Null
    /\ feedback[e] = <<" ">>
    /\ ~processing[e]
    /\ notifs = <<>>
    /\ writes = <<>>

\* C7: the return of the notification call, whatever it is, leaves the table
\* as the update left it, and the session goes on: after a throw it is idle
\* with processing false, after a response it reloads the list and is idle with
\* processing false when the reload returns.
C7_NotificationOutcomeKeepsRow ==
  [][\A e \in EvalSessions :
       /\ (epc[e] = "notify" /\ epc'[e] # "notify")
            => /\ rows' = rows
               /\ writes' = writes
               /\ \/ epc'[e] = "idle" /\ ~processing'[e]
                  \/ /\ epc'[e] = "reload"
                     /\ \E f \in fetches'[e] : f.by = "decision"
       /\ (epc[e] = "reload" /\ epc'[e] # "reload")
            => rows' = rows /\ epc'[e] = "idle" /\ ~processing'[e]
       /\ \A i \in 1..Len(rows) :
            rows'[i] # rows[i] => rows'[i].status \in Decisions]_vars

\* the notification call of the only decision made has thrown: the row keeps
\* the decision and the session is idle again
C7_NotificationThrew ==
  \E e \in EvalSessions :
    /\ \A o \in EvalSessions \ {e} : epc[o] = "getUser"
    /\ Len(notifs) = 1
    /\ epc[e] = "idle"
    /\ ~processing[e]
    /\ selectedSubmission[e] # Null
    /\ feedback[e] # <<>>
    /\ rows[1].status = notifs[1].decision
    /\ rows[1].feedback = Some(notifs[1].feedback)

\* the notifications sent for decision n
notifsOf(n) == {j \in 1..Len(notifs) : notifs[j].n = n}

\* the update of decision n is applied and its answer is on its way
awaitingDispatch(n) ==
  \E e \in EvalSessions : epc[e] = "updated" /\ Val(call[e]).n = n

\* C8: every update the table applied has exactly one notification once its
\* answer has reached the session, and every notification carries the email
\* and full_name of the row and the status and trimmed feedback that update
\* wrote.
C8_OneNotificationPerUpdate ==
  /\ \A i \in 1..Len(writes) :
       Cardinality(notifsOf(writes[i].n)) =
         IF awaitingDispatch(writes[i].n) THEN 0 ELSE 1
  /\ \A j \in 1..Len(notifs) :
       \E i \in 1..Len(writes) :
         /\ writes[i].n = notifs[j].n
         /\ notifs[j].decision = writes[i].status
         /\ notifs[j].feedback = writes[i].feedback
         /\ \E k \in 1..Len(rows) :
              /\ rows[k].id = writes[i].id
              /\ notifs[j].to = rows[k].email
              /\ notifs[j].name = rows[k].full_name

\* a decision typed with blanks around its feedback has been notified
C8_TrimmedNotified ==
  /\ Len(writes) = 1
  /\ Len(notifs) = 1
  /\ notifs[1].feedback = <<"o", "k">>
  /\ rows[1].feedback = Some(<<"o", "k">>)
  /\ rows[1].status = notifs[1].decision

\* the updates the table applied to row id, in order
writesOf(id) == SelectSeq(writes, LAMBDA w : w.id = id)

\* C9 as stated: after two decisions of one row the row holds the write
\* applied last and the notification sent last carries what the row holds.
C9_LaterNotificationMatchesStore ==
  (Len(writes) = 2 /\ Len(notifs) = 2 /\ writes[1].id = writes[2].id)
    => \E k \in 1..Len(rows) :
         /\ rows[k].id = writes[2].id
         /\ rows[k].status = writes[2].status
         /\ rows[k].feedback = Some(writes[2].feedback)
         /\ notifs[2].decision = rows[k].status
         /\ notifs[2].feedback = Val(rows[k].feedback)

\* C9, amended: a row holds the status and feedback of the write applied to
\* it last, and the notification of that write carries what the row holds; it
\* is sent before or after the notification of the other write.
C9_LastWriteWins ==
  \A k \in 1..Len(rows) :
    LET ws == writesOf(rows[k].id)
    IN IF ws = <<>>
         THEN rows[k].status = "pending" /\ rows[k].feedback = Null
         ELSE LET w == ws[Len(ws)]
              IN /\ rows[k].status = w.status
                 /\ rows[k].feedback = Some(w.feedback)
                 /\ \A j \in 1..Len(notifs) :
                      notifs[j].n = w.n
                        => /\ notifs[j].decision = rows[k].status
                           /\ notifs[j].feedback = Val(rows[k].feedback)

\* two sessions decided the row differently and the notification of the first
\* write was sent last
C9_NotificationsSwapped ==
  /\ Len(writes) = 2
  /\ Len(notifs) = 2
  /\ writes[1].status # writes[2].status
  /\ notifs[1].n = writes[2].n
  /\ notifs[2].n = writes[1].n
  /\ rows[1].status = writes[2].status
  /\ notifs[2].decision # rows[1].status

(***************************************************************************)
(* Further properties of the submit workflow                               *)
(***************************************************************************)
\* an object is stored in bucket under the path of the public URL url
uploadedAt(bucket, url) ==
  /\ url.bucket = bucket
  /\ \E b \in blobs : b.bucket = bucket /\ b.path = url.path

\* C11: the row an insert of handleSubmit adds has status pending and no
\* feedback, the user id of the session's role check, the five texts of the
\* draft trimmed, and as URLs the public URLs of the two paths this attempt
\* uploaded to.
C11_InsertedRowMatchesDraft ==
  [][Len(rows') > Len(rows)
       => \E s \in DevSessions :
            LET r == rows'[Len(rows')]
            IN /\ dpc[s] = "insert"
               /\ dpc'[s] = "page"
               /\ Len(rows') = Len(rows) + 1
               /\ r.status = "pending"
               /\ r.feedback = Null
               /\ lookupPassed(s)
               /\ r.user_id = Val(user[s])
               /\ r.full_name = trim(formData[s].fullName)
               /\ r.phone_number = trim(formData[s].phoneNumber)
               /\ r.location = trim(formData[s].location)
               /\ r.email = trim(formData[s].email)
               /\ r.hobbies = trim(formData[s].hobbies)
               /\ r.profile_picture_url.path = Val(attempt[s].imagePath)
               /\ r.source_code_url.path = Val(attempt[s].codePath)
               /\ uploadedAt("profile-pictures", r.profile_picture_url)
               /\ uploadedAt("source-code", r.source_code_url)]_vars

\* the draft typed with blanks around the name and the location is stored
\* trimmed
C11_TrimmedRowStored ==
  \E i \in 1..Len(rows) :
    /\ rows[i].full_name = <<"A", "l">>
    /\ rows[i].location = <<"R", "o", "m", "e">>
    /\ rows[i].status = "pending"
    /\ rows[i].feedback = Null
    /\ uploadedAt("profile-pictures", rows[i].profile_picture_url)

\* C12: a handleSubmit call on a draft that validateSubmissionForm rejects
\* stores the error map as the session's errors and does nothing else: no
\* compression, upload or insert is started, submitting is not set and the
\* form stays as it is.
C12_InvalidDraftStaysReady ==
  [][\A s \in DevSessions :
       (/\ attempts'[s] = attempts[s] + 1
        /\ \E n \in FormFields : fieldError(formData[s], n) # None)
         => /\ errors'[s] = validateSubmissionForm(formData[s])
            /\ DOMAIN errors'[s] # {}
            /\ dpc'[s] = "page"
            /\ ~submitting'[s]
            /\ ~hasSubmission'[s]
            /\ ~loading'[s]
            /\ issued' = issued
            /\ rows' = rows
            /\ blobs' = blobs
            /\ attempt' = attempt
            /\ formData' = formData]_vars

\* a rejected draft: its errors are shown and nothing was sent
C12_ErrorsShown ==
  \E s \in DevSessions :
    /\ attempts[s] = 1
    /\ dpc[s] = "page"
    /\ ~submitting[s]
    /\ "phoneNumber" \in DOMAIN errors[s]
    /\ errors[s] = validateSubmissionForm(formData[s])
    /\ issued[s] = {"select"}
    /\ blobs = {}
    /\ rows = <<>>

\* C13: a submit attempt that has set submitting ends with submitting false;
\* it ends with hasSubmission true exactly when its insert added the row, and
\* otherwise leaves the form rendered with the draft as it was, ready for
\* another handleSubmit.
C13_AttemptEnds ==
  /\ \A s \in DevSessions : submitting[s] ~> ~submitting[s]
  /\ [][\A s \in DevSessions :
          (submitting[s] /\ ~submitting'[s])
            => /\ dpc'[s] = "page"
               /\ ~loading'[s]
               /\ formData'[s] = formData[s]
               /\ IF hasSubmission'[s]
                    THEN dpc[s] = "insert" /\ Len(rows') = Len(rows) + 1
                    ELSE rows' = rows /\ ~hasSubmission[s]]_vars

\* an attempt failed at an upload: the form is back with its valid draft and
\* handleSubmit can be called again
C13_ReadyAfterFailedUpload ==
  \E s \in DevSessions :
    /\ attempts[s] = 1
    /\ "upload" \in issued[s]
    /\ "insert" \notin issued[s]
    /\ formRendered(s)
    /\ ~submitting[s]
    /\ validateSubmissionForm(formData[s]) = NoErrors
    /\ ENABLED handleSubmit(s)

\* the objects of user u in bucket
objectsOf(bucket, u) == {b \in blobs : b.bucket = bucket /\ b.path.dir = u}

\* C14: after any sequence of submit attempts blob storage holds at most one
\* profile-picture object and at most one source-code object per user.
C14_OneObjectPerUser ==
  \A u \in Users :
    /\ Cardinality(objectsOf("profile-pictures", u)) <= 1
    /\ Cardinality(objectsOf("source-code", u)) <= 1

(***************************************************************************)
(* Further properties of the review workflow                               *)
(***************************************************************************)
\* nothing is on its way to session e: no change event, no fetch, no handler
settled(e) ==
  /\ subscribed[e]
  /\ epc[e] = "idle"
  /\ events[e] = 0
  /\ fetches[e] = {}

\* C15: when no change event is undelivered and every fetch has returned, the
\* list of a subscribed session is the table, newest first.
C15_SettledListIsStore ==
  \A e \in EvalSessions :
    settled(e) => submissions[e] = reverse(rows)

(***************************************************************************)
(* Properties of POST /api/send-email                                      *)
(***************************************************************************)
\* C16: a request with one of to, name, decision, feedback absent or empty is
\* answered 400, also when the credentials are missing; a request with all
\* four and without the API key or the secret key is answered 500; neither
\* sends anything to the provider.
C16_FieldsThenCredentials ==
  mail # NoMail
    => LET body == Val(mail.body)
           env == Val(mail.env)
           missing == \E f \in MailFields :
                        body[f] = Null \/ body[f] = Some(<<>>)
       IN /\ missing => mail.status = 400 /\ mail.sent = 0
          /\ (~missing /\ ~(env.apiKey /\ env.secretKey))
               => mail.status = 500 /\ mail.sent = 0

\* a request without feedback arrived while no credentials were configured
C16_MissingFieldWithoutCredentials ==
  /\ mail # NoMail
  /\ Val(mail.body)["feedback"] = Some(<<>>)
  /\ Val(mail.body)["to"] = Some(<<"x">>)
  /\ ~Val(mail.env).apiKey
  /\ mail.status = 400
  /\ mail.sent = 0

\* the feedback column of a list entry as a string
storedFeedback(row) == IF row.feedback = Null THEN <<>> ELSE row.feedback[1]

\* C17: while a submission whose status in the list is accepted or rejected is
\* selected, the feedback box holds its stored feedback, cannot be edited,
\* and neither Accept nor Reject can be clicked; selecting any submission,
\* pending ones too, puts its stored feedback (empty if none) in the box.
C17_DecidedSelectionIsReadOnly ==
  /\ [](\A e \in EvalSessions :
          (/\ selectedSubmission[e] # Null
           /\ Val(selectedSubmission[e]).status \in Decisions)
            => /\ feedback[e] = storedFeedback(Val(selectedSubmission[e]))
               /\ ~ENABLED (\E text \in FeedbackInputs : SetFeedback(e, text))
               /\ ~ENABLED (\E d \in Decisions : ClickDecision(e, d)))
  /\ [][\A e \in EvalSessions :
          (/\ selectedSubmission'[e] # Null
           /\ selectedSubmission'[e] # selectedSubmission[e])
            => /\ \E i \in 1..Len(submissions[e]) :
                    Val(selectedSubmission'[e]) = submissions[e][i]
               /\ feedback'[e] = storedFeedback(Val(selectedSubmission'[e]))]_vars

\* a rejected submission is selected and its feedback is shown
C17_RejectedShown ==
  \E e \in EvalSessions :
    /\ epc[e] = "idle"
    /\ ~processing[e]
    /\ selectedSubmission[e] # Null
    /\ Val(selectedSubmission[e]).status = "rejected"
    /\ feedback[e] = <<"o", "k">>

\* C18: when the notification call of a decision ends, with a response or
\* with a throw, the session clears its selection and its feedback and
\* fetches the list as the table is after the write; when the handler ends
\* processing is false.
C18_DecisionReturnsToBrowsing ==
  [][\A e \in EvalSessions :
       /\ (epc[e] = "notify" /\ epc'[e] # "notify")
            => /\ selectedSubmission'[e] = Null
               /\ feedback'[e] = <<>>
               /\ \E f \in fetches'[e] : f.by = "decision" /\ f.data = reverse(rows)
       /\ (epc[e] \in {"notify", "reload"} /\ epc'[e] = "idle")
            => ~processing'[e]]_vars

\* row r with the status and the feedback of row q
withDecisionOf(r, q) == [r EXCEPT !.status = q.status, !.feedback = q.feedback]

\* C19: no step removes or reorders a row; a step that changes a row is the
\* update of a decision, it changes only the row whose id is the id of the
\* submission that decision was made on, and only its status and feedback.
C19_DecisionWritesOneRow ==
  [][/\ Len(rows') >= Len(rows)
     /\ \A i \in 1..Len(rows) :
          /\ withDecisionOf(rows'[i], rows[i]) = rows[i]
          /\ rows'[i] # rows[i]
               => \E e \in EvalSessions :
                    /\ epc[e] = "update"
                    /\ epc'[e] = "updated"
                    /\ rows[i].id = Val(call[e]).sub.id
                    /\ Len(rows') = Len(rows)]_vars

\* a second row was inserted and decided; the first is as it was
C19_OtherRowUntouched ==
  /\ Len(rows) = 2
  /\ <<rows[1]>> \in InitStores
  /\ rows[2].user_id = "u2"
  /\ rows[2].full_name = <<"B", "o">>
  /\ rows[2].status = "accepted"
  /\ rows[2].feedback = Some(<<"o", "k">>)

(***************************************************************************)
(* Properties of the validation                                            *)
(***************************************************************************)
\* the number of digit characters of a string
digitCount(str) == Cardinality({i \in 1..Len(str) : str[i] \in Digits})

\* validateSubmissionForm reports an error for the phone number q put into
\* draft data
phoneRejected(data, q) ==
  "phoneNumber" \in DOMAIN validateSubmissionForm([data EXCEPT !.phoneNumber = q])

\* C20: validateSubmissionForm reports a phoneNumber error exactly when the
\* phone string has fewer than 7 or more than 15 digit characters, so a
\* string gets the verdict of the bare digits it contains; the errors
\* handleSubmit stores say the same.
C20_PhoneVerdictIsDigitCount ==
  /\ [](\A s \in DevSessions :
          LET p == formData[s].phoneNumber
          IN /\ phoneRejected(formData[s], p) <=> digitCount(p) \notin 7..15
             /\ phoneRejected(formData[s], p)
                  <=> phoneRejected(formData[s], Str(digitCount(p), "7")))
  /\ [][\A s \in DevSessions :
          attempts'[s] # attempts[s]
            => ("phoneNumber" \in DOMAIN errors'[s]
                  <=> digitCount(formData[s].phoneNumber) \notin 7..15)]_vars

\* a number of ten digits typed with a plus, blanks and brackets passed, and
\* the other fields did not
C20_FormattedNumberAccepted ==
  /\ attempts["d1"] >= 1
  /\ digitCount(formData["d1"].phoneNumber) = 10
  /\ Len(formData["d1"].phoneNumber) > 12
  /\ "fullName" \in DOMAIN errors["d1"]
  /\ "phoneNumber" \notin DOMAIN errors["d1"]

\* validateSubmissionForm reports an error for the hobbies text q put into
\* draft data
hobbiesRejected(data, q) ==
  "hobbies" \in DOMAIN validateSubmissionForm([data EXCEPT !.hobbies = q])

\* the length of a text without its leading and trailing white space
trimmedLength(str) ==
  LET inner == {i \in 1..Len(str) : str[i] \notin WhiteSpace}
  IN IF inner = {} THEN 0
     ELSE 1 + (CHOOSE i \in inner : \A j \in inner : j <= i)
            - (CHOOSE i \in inner : \A j \in inner : i <= j)

\* C21: validateSubmissionForm reports a hobbies error exactly when the
\* trimmed length of hobbies is below 20 or above 1000; texts of 19 and 1001
\* characters are rejected, texts of 20 and 1000 characters are accepted,
\* and the errors handleSubmit stores say the same.
C21_HobbiesVerdictIsTrimmedLength ==
  /\ [](\A s \in DevSessions :
          /\ hobbiesRejected(formData[s], formData[s].hobbies)
               <=> trimmedLength(formData[s].hobbies) \notin 20..1000
          /\ hobbiesRejected(formData[s], Str(19, "h"))
          /\ ~hobbiesRejected(formData[s], Str(20, "h"))
          /\ ~hobbiesRejected(formData[s], Str(1000, "h"))
          /\ hobbiesRejected(formData[s], Str(1001, "h")))
  /\ [][\A s \in DevSessions :
          attempts'[s] # attempts[s]
            => ("hobbies" \in DOMAIN errors'[s]
                  <=> trimmedLength(formData[s].hobbies) \notin 20..1000)]_vars

\* a text of 1000 characters typed with white space around it passed, and
\* the other fields did not
C21_PaddedLimitAccepted ==
  /\ attempts["d1"] >= 1
  /\ Len(formData["d1"].hobbies) > 1000
  /\ trimmedLength(formData["d1"].hobbies) = 1000
  /\ "fullName" \in DOMAIN errors["d1"]
  /\ "hobbies" \notin DOMAIN errors["d1"]

\* the object the upload of the current attempt of s put into bucket
storedByAttempt(s, bucket, path, file) ==
  /\ path # Null
  /\ [bucket |-> bucket, path |-> Val(path), file |-> file] \in blobs'

\* C22: within one submit attempt the steps run in the order validate,
\* compress image, upload image, upload archive, insert row, each started
\* only after the one before it succeeded: the compression starts from the
\* form with a draft that passes validation, the image upload after the
\* compression returned a file, the archive upload after the image of this
\* attempt is stored, the insert after the archive of this attempt is stored,
\* and a row is added only by a session whose insert is under way.
C22_StepsInOrder ==
  [][/\ \A s \in DevSessions :
          /\ (dpc'[s] = "compress" /\ dpc[s] # "compress")
               => /\ dpc[s] = "page"
                  /\ DOMAIN validateSubmissionForm(formData[s]) = {}
                  /\ attempt[s] = NoAttempt
          /\ (dpc'[s] = "uploadImage" /\ dpc[s] # "uploadImage")
               => /\ dpc[s] = "compress"
                  /\ attempt'[s].compressedImage
                       = Some(compressedFile(Val(formData[s].profilePicture)))
                  /\ attempt'[s].codePath = Null
          /\ (dpc'[s] = "uploadCode" /\ dpc[s] # "uploadCode")
               => /\ dpc[s] = "uploadImage"
                  /\ storedByAttempt(s, "profile-pictures",
                                     attempt[s].imagePath,
                                     Val(attempt[s].compressedImage))
          /\ (dpc'[s] = "insert" /\ dpc[s] # "insert")
               => /\ dpc[s] = "uploadCode"
                  /\ storedByAttempt(s, "source-code", attempt[s].codePath,
                                     Val(formData[s].sourceCode))
                  /\ rows' = rows
     /\ Len(rows') > Len(rows)
          => \E s \in DevSessions :
               /\ dpc[s] = "insert"
               /\ \E b \in blobs : /\ b.bucket = "profile-pictures"
                                   /\ b.path = Val(attempt[s].imagePath)
               /\ \E b \in blobs : /\ b.bucket = "source-code"
                                   /\ b.path = Val(attempt[s].codePath)]_vars

\* after an attempt that failed, the second attempt of d1 has stored both
\* files and its insert is under way
C22_InsertAfterBothUploads ==
  /\ attempts["d1"] = 2
  /\ dpc["d1"] = "insert"
  /\ rows = <<>>
  /\ \E b \in blobs : b.bucket = "profile-pictures" /\ b.path.dir = "u1"
  /\ \E b \in blobs : b.bucket = "source-code" /\ b.path.dir = "u1"

(***************************************************************************)
(* Further properties of the review workflow                               *)
(***************************************************************************)
\* C23: an evaluator session that passed the role check eventually leaves
\* the loading state and shows the dashboard, whatever the outcome of its
\* initial fetch of the submissions.
C23_LoadingEnds ==
  \A e \in EvalSessions : lookupPassed(e) ~> dashboardRendered(e)

\* C24: a notification request is sent only for a decision whose update the
\* table applied and answered without an error; when the update fails,
\* handleDecision sends no notification, keeps the selection and the feedback
\* text, starts no reload and resets processing to false.
C24_NotificationOnlyAfterUpdate ==
  /\ [](\A j \in 1..Len(notifs) :
          \E i \in 1..Len(writes) : writes[i].n = notifs[j].n)
  /\ [][/\ \A e \in EvalSessions :
             (epc[e] = "update" /\ epc'[e] # "update")
               => IF writes' = writes
                    THEN /\ epc'[e] = "idle"
                         /\ ~processing'[e]
                         /\ rows' = rows
                         /\ notifs' = notifs
                         /\ selectedSubmission'[e] = selectedSubmission[e]
                         /\ feedback'[e] = feedback[e]
                         /\ fetches'[e] = fetches[e]
                    ELSE epc'[e] = "updated" /\ notifs' = notifs
        /\ notifs' # notifs
             => \E e \in EvalSessions :
                  /\ epc[e] = "updated"
                  /\ \E i \in 1..Len(writes) : writes[i].n = Val(call[e]).n
                  /\ Len(notifs') = Len(notifs) + 1
                  /\ notifs'[Len(notifs')].n = Val(call[e]).n]_vars

\* the update of the only decision started was refused: nothing is written
\* or sent, and the session is idle with its selection and its feedback text
C24_UpdateRefused ==
  \E e \in EvalSessions :
    /\ started = 1
    /\ last[e].result = "update"
    /\ epc[e] = "idle"
    /\ ~processing[e]
    /\ writes = <<>>
    /\ notifs = <<>>
    /\ selectedSubmission[e] # Null
    /\ trim(feedback[e]) = <<"o", "k">>
    /\ \A i \in 1..Len(rows) : rows[i].status = "pending"

\* a file of a content type and a size the profile picture input takes
imageAccepted(file) ==
  /\ file.type \in {"image/jpeg", "image/jpg", "image/png", "image/webp"}
  /\ file.size <= 20 * 1024 * 1024

\* a file of a name and a size the source code input takes
archiveAccepted(file) ==
  /\ Len(file.name) >= 2
  /\ file.name[Len(file.name)] = "zip"
  /\ file.size <= 50 * 1024 * 1024

\* C25: in every state of a developer session the profile image of the
\* draft, when present, has passed validateImageFile (JPEG, PNG or WebP, at
\* most 20 MiB) and the archive, when present, has a name ending in .zip and
\* at most 50 MiB; compressImage and the two uploads work on such files only;
\* a selection that is rejected leaves the file of the draft as it was.
C25_DraftFilesAreValidated ==
  /\ [](\A s \in DevSessions :
          /\ formData[s].profilePicture # Null
               => /\ imageAccepted(Val(formData[s].profilePicture))
                  /\ validateImageFile(Val(formData[s].profilePicture)).valid
          /\ formData[s].sourceCode # Null
               => archiveAccepted(Val(formData[s].sourceCode))
          /\ dpc[s] \in {"compress", "uploadImage", "uploadCode", "insert"}
               => /\ formData[s].profilePicture # Null
                  /\ formData[s].sourceCode # Null
          /\ attempt[s].compressedImage # Null
               => imageAccepted(Val(attempt[s].compressedImage))
          /\ \A b \in blobs :
               IF b.bucket = "profile-pictures"
                 THEN imageAccepted(b.file)
                 ELSE archiveAccepted(b.file))
  /\ [][\A s \in DevSessions :
          /\ ("profilePicture" \in DOMAIN errors'[s]
                /\ errors'[s]["profilePicture"] \in
                     {"Please upload a valid image file (JPEG, PNG, or WebP)",
                      "Image file is too large. Please select an image under 20MB"})
               => formData'[s].profilePicture = formData[s].profilePicture
          /\ ("sourceCode" \in DOMAIN errors'[s]
                /\ errors'[s]["sourceCode"] \in
                     {"File must be a .zip file", "File must be less than 50MB"})
               => formData'[s].sourceCode = formData[s].sourceCode]_vars

\* the draft holds the image of exactly 20 MiB and the archive of exactly
\* 50 MiB picked first; the image one byte larger picked after it was rejected
C25_OversizeImageRejected ==
  /\ errors["d1"] # NoErrors
  /\ "profilePicture" \in DOMAIN errors["d1"]
  /\ errors["d1"]["profilePicture"]
       = "Image file is too large. Please select an image under 20MB"
  /\ formData["d1"].profilePicture # Null
  /\ Val(formData["d1"].profilePicture).size = 20 * 1024 * 1024
  /\ formData["d1"].sourceCode # Null
  /\ Val(formData["d1"].sourceCode).size = 50 * 1024 * 1024

====
